---- MODULE Spec2Model ----
(***************************************************************************)
(* Model of irreptables/__init__.py: the parsers and serializers of        *)
(* SymopTable, KPoint, Irrep and IrrepTable.                               *)
(*                                                                         *)
(* Text is modelled as sequences of whitespace-separated tokens (strings); *)
(* the separators ":" and "=" are tokens of their own.  Real numbers are   *)
(* integers in units of 1/1000, complex numbers are records [re, im] in    *)
(* the same unit, and phases are restricted to multiples of pi/2 so that   *)
(* mag * exp(i*pi*phase) is exact.                                         *)
(***************************************************************************)
EXTENDS Integers, Sequences, FiniteSets, TLC

VARIABLES
    kpA,      \* object level: the KPoint object at hand
    out,      \* object level: the last operation applied and what it returned
    src,      \* the request: SGnumber, spinor, fromUser, and the lines of the file named
    lines,    \* the input stream still to be read
    pc,       \* position of the loader / of save4user
    phase,    \* "load", "save" or "reload" (loading what save4user wrote)
    tbl,      \* the IrrepTable object under construction or loaded
    kp,       \* user path: the local variable kp of the record scan
    err,      \* the exception that left the running operation, "none" if none
    fout,     \* the lines save4user wrote
    wrote,    \* indices (in tbl.irreps) of the irreps whose records were written
    orig,     \* the table that was saved, kept while its file is loaded again
    parsed    \* legacy path: the irreps appended before the spinor filter

unitVars == <<kpA, out>>

tableVars == <<src, lines, pc, phase, tbl, kp, err, fout, wrote, orig, parsed>>

vars == <<kpA, out, src, lines, pc, phase, tbl, kp, err, fout, wrote, orig, parsed>>

-----------------------------------------------------------------------------
(* Python text and number primitives                                       *)

IntLits == {"-1", "0", "1", "2", "3", "4", "5", "6", "7", "8"}

IsIntLit(s) == s \in IntLits

\* int(s)
IntOf(s) ==
    CASE s = "-1" -> -1
      [] s = "0" -> 0
      [] s = "1" -> 1
      [] s = "2" -> 2
      [] s = "3" -> 3
      [] s = "4" -> 4
      [] s = "5" -> 5
      [] s = "6" -> 6
      [] s = "7" -> 7
      [] s = "8" -> 8

\* str(n) of an integer
IntStr(n) ==
    CASE n = -1 -> "-1"
      [] n = 0 -> "0"
      [] n = 1 -> "1"
      [] n = 2 -> "2"
      [] n = 3 -> "3"
      [] n = 4 -> "4"
      [] n = 5 -> "5"
      [] n = 6 -> "6"
      [] n = 7 -> "7"
      [] n = 8 -> "8"

FloatLits == {"0.0", "0.5", "-0.5", "1.0", "-1.0", "2.0", "0.123", "0.25"}

IsFloatLit(s) == s \in FloatLits \/ s \in IntLits

\* float(s), in units of 1/1000
FloatOf(s) ==
    CASE s = "0.0" -> 0
      [] s = "0.5" -> 500
      [] s = "-0.5" -> -500
      [] s = "1.0" -> 1000
      [] s = "-1.0" -> -1000
      [] s = "2.0" -> 2000
      [] s = "0.123" -> 123
      [] s = "0.25" -> 250
      [] s \in IntLits -> 1000 * IntOf(s)

\* str(x) of a float, x in units of 1/1000
FloatStr(x) ==
    CASE x = 0 -> "0.0"
      [] x = 500 -> "0.5"
      [] x = -500 -> "-0.5"
      [] x = 1000 -> "1.0"
      [] x = -1000 -> "-1.0"
      [] x = 2000 -> "2.0"
      [] x = -2000 -> "-2.0"
      [] x = 123 -> "0.123"
      [] x = 250 -> "0.25"
      [] x = 3000 -> "3.0"
      [] x = 4000 -> "4.0"

\* irrep.__aux.str_ : str(round(x, 5))
str_(x) == FloatStr(x)

AllInt(toks) == \A i \in 1..Len(toks) : IsIntLit(toks[i])

AllFloat(toks) == \A i \in 1..Len(toks) : IsFloatLit(toks[i])

Ints(toks) == [i \in 1..Len(toks) |-> IntOf(toks[i])]

Floats(toks) == [i \in 1..Len(toks) |-> FloatOf(toks[i])]

\* Python slice s[a:b] with 0-based a, b (b may exceed the length)
Slice(s, a, b) ==
    LET hi == IF b < Len(s) THEN b ELSE Len(s)
    IN IF a >= hi THEN <<>> ELSE SubSeq(s, a + 1, hi)

\* str.split(sep) on a token line: the pieces between separator tokens
RECURSIVE SplitOn(_, _)
SplitOn(toks, sep) ==
    IF \A i \in 1..Len(toks) : toks[i] # sep
    THEN <<toks>>
    ELSE LET i == CHOOSE j \in 1..Len(toks) :
                      /\ toks[j] = sep
                      /\ \A h \in 1..(j - 1) : toks[h] # sep
         IN <<SubSeq(toks, 1, i - 1)>> \o SplitOn(SubSeq(toks, i + 1, Len(toks)), sep)

\* sorted(s) for a sequence of integers
RECURSIVE SortedSeq(_)
SortedSeq(s) ==
    IF Len(s) = 0 THEN <<>>
    ELSE LET i == CHOOSE j \in 1..Len(s) : \A h \in 1..Len(s) : s[j] <= s[h]
         IN <<s[i]>> \o SortedSeq(SubSeq(s, 1, i - 1) \o SubSeq(s, i + 1, Len(s)))

\* sorted(s) for a set of integers
RECURSIVE SortedSet(_)
SortedSet(S) ==
    IF S = {} THEN <<>>
    ELSE LET m == CHOOSE x \in S : \A y \in S : x <= y
         IN <<m>> \o SortedSet(S \ {m})

Range(s) == {s[i] : i \in 1..Len(s)}

\* a raised exception / a returned value
Raise(e) == [err |-> e]

Ok(v) == [err |-> "none", val |-> v]

-----------------------------------------------------------------------------
(* Complex numbers                                                         *)

Cplx(re, im) == [re |-> re, im |-> im]

AbsInt(x) == IF x < 0 THEN -x ELSE x

\* mag * np.exp(1j * np.pi * phase)
Polar(mag, ph) ==
    LET q == ph % 2000
    IN CASE q = 0 -> Cplx(mag, 0)
         [] q = 500 -> Cplx(0, mag)
         [] q = 1000 -> Cplx(-mag, 0)
         [] q = 1500 -> Cplx(0, -mag)

\* np.abs(z)
CAbs(z) ==
    CASE z.im = 0 -> AbsInt(z.re)
      [] z.re = 0 -> AbsInt(z.im)

\* np.angle(z) / np.pi
CAngle(z) ==
    CASE z.im = 0 /\ z.re >= 0 -> 0
      [] z.im = 0 /\ z.re < 0 -> 1000
      [] z.re = 0 /\ z.im > 0 -> 500
      [] z.re = 0 /\ z.im < 0 -> -500

CAdd(a, b) == Cplx(a.re + b.re, a.im + b.im)

\* int(n / 2): true division, then truncation toward zero
HalfInt(n) == IF n >= 0 THEN n \div 2 ELSE -((-n) \div 2)

\* numpy broadcasting of two 1-d arrays of lengths la and lb
Broadcastable(la, lb) == la = lb \/ la = 1 \/ lb = 1

BroadcastLen(la, lb) == IF la = 1 THEN lb ELSE IF lb = 1 THEN la ELSE la

\* amp * np.exp(1j*np.pi*ph) for arrays amp, ph (broadcast)
PolarArray(amp, ph) ==
    [i \in 1..BroadcastLen(Len(amp), Len(ph)) |->
        Polar(IF Len(amp) = 1 THEN amp[1] ELSE amp[i],
              IF Len(ph) = 1 THEN ph[1] ELSE ph[i])]

-----------------------------------------------------------------------------
(* Python containers holding the little-group indices                      *)

\* a set is held as the increasing sequence of its elements
PySet(S) == [kind |-> "set", s |-> SortedSet(S)]

PyList(l) == [kind |-> "list", s |-> l]

\* len(x)
PyLen(x) == Len(x.s)

\* sorted(x)
PySorted(x) == SortedSeq(x.s)

\* a != b : a set never equals a list; lists compare element by element in order
PyNe(a, b) == IF a.kind # b.kind THEN TRUE ELSE a.s # b.s

\* the elements of x
PyElems(x) == Range(x.s)

\* irrep.__aux.str2list_space : the integers of a whitespace-separated list
str2list_space(toks) ==
    IF AllInt(toks) THEN Ok(PyList(Ints(toks))) ELSE Raise("ValueError")

\* irrep.__aux.str2bool
str2bool(tok) ==
    CASE tok \in {"True", "true", "T", "t"} -> Ok(TRUE)
      [] tok \in {"False", "false", "F", "f"} -> Ok(FALSE)
      [] OTHER -> Raise("RuntimeError")

-----------------------------------------------------------------------------
(* class KPoint                                                            *)

KPointObj(name, k, isym) == [name |-> name, k |-> k, isym |-> isym]

\* KPoint(line=line)
KPoint_init(line) ==
    LET line_ == SplitOn(line, ":")
        head == line_[1]
    IN IF Len(head) = 0 THEN Raise("IndexError")
       ELSE IF head[1] # "kpoint" THEN Raise("ValueError")
       ELSE IF Len(head) < 2 THEN Raise("IndexError")
       ELSE IF Len(line_) < 2 THEN Raise("IndexError")
       ELSE IF ~AllFloat(line_[2]) THEN Raise("ValueError")
       ELSE IF Len(line_) < 3 THEN Raise("IndexError")
       ELSE LET r == str2list_space(line_[3])
            IN IF r.err # "none" THEN Raise(r.err)
               ELSE Ok(KPointObj(head[2], Floats(line_[2]), r.val))

\* np.linalg.norm(a - b) > 1e-8, for arrays of equal or broadcastable length
NormDiffers(a, b) ==
    \E i \in 1..BroadcastLen(Len(a), Len(b)) :
        (IF Len(a) = 1 THEN a[1] ELSE a[i]) # (IF Len(b) = 1 THEN b[1] ELSE b[i])

\* KPoint.__eq__
KPoint_eq(self, other) ==
    IF self.name # other.name THEN Ok(FALSE)
    ELSE IF ~Broadcastable(Len(self.k), Len(other.k)) THEN Raise("ValueError")
    ELSE IF NormDiffers(self.k, other.k) THEN Ok(FALSE)
    ELSE IF PyNe(self.isym, other.isym) THEN Ok(FALSE)
    ELSE Ok(TRUE)

\* KPoint.str
KPoint_str(self) ==
    <<self.name, ":">>
      \o [i \in 1..Len(self.k) |-> FloatStr(self.k[i])]
      \o <<":">>
      \o [i \in 1..PyLen(self.isym) |-> IntStr(PySorted(self.isym)[i])]

-----------------------------------------------------------------------------
(* class CharFunction                                                      *)

CharFunction(abcde) == [abcde |-> abcde]

\* one term of CharFunction.__call__ at u = v = w = 0
CharTerm(aaa) == IF Len(aaa) >= 2 THEN Polar(aaa[1], aaa[2]) ELSE Cplx(aaa[1], 0)

RECURSIVE CharSum(_)
CharSum(abcde) ==
    IF Len(abcde) = 0 THEN Cplx(0, 0)
    ELSE CAdd(CharTerm(Head(abcde)), CharSum(Tail(abcde)))

\* CharFunction.__call__() with the default arguments
CharFunction_call(self) ==
    IF \E i \in 1..Len(self.abcde) : Len(self.abcde[i]) = 0
    THEN Raise("IndexError")
    ELSE Ok(CharSum(self.abcde))

-----------------------------------------------------------------------------
(* class Irrep                                                             *)

\* f.readline().split(): the next line of the stream, empty at end of file
ReadLine(ls) == IF Len(ls) = 0 THEN <<>> ELSE Head(ls)

\* the stream after one readline
Advance(ls) == IF Len(ls) = 0 THEN <<>> ELSE Tail(ls)

\* {keys[i]: vals[i] for i in range(n)} : a later entry replaces an earlier one
DictOf(keys, vals, n) ==
    [x \in {keys[i] : i \in 1..n} |->
        vals[CHOOSE i \in 1..n :
                 /\ keys[i] = x
                 /\ \A j \in 1..n : keys[j] = x => j <= i]]

\* the dim*dim pairs of lines of one present operation; position p counts
\* (i, j) row-major from 0; only the diagonal i = j is retained
RECURSIVE ReadMatrix(_, _, _, _, _)
ReadMatrix(ls, dim, p, abcde, hasuvw) ==
    IF dim <= 0 \/ p >= dim * dim
    THEN [err |-> "none", rest |-> ls, abcde |-> abcde, hasuvw |-> hasuvw]
    ELSE LET l1 == ReadLine(ls)
             l2 == ReadLine(Advance(ls))
             rest == Advance(Advance(ls))
         IN IF (p \div dim) # (p % dim) THEN ReadMatrix(rest, dim, p + 1, abcde, hasuvw)
            ELSE IF l1 # <<"1">> /\ l1 # <<"2">> THEN Raise("RuntimeError")
            ELSE IF ~AllFloat(l2) THEN Raise("ValueError")
            ELSE ReadMatrix(rest, dim, p + 1, Append(abcde, Floats(l2)),
                            hasuvw \/ l1 = <<"2">>)

\* the loop over the nsym_group operation slots of a machine-encoded record
RECURSIVE ReadSlots(_, _, _, _, _, _)
ReadSlots(ls, nsym_group, dim, isym, characters, hasuvw) ==
    IF isym > nsym_group
    THEN [err |-> "none", rest |-> ls, characters |-> characters, hasuvw |-> hasuvw]
    ELSE LET l == ReadLine(ls)
         IN IF ~AllInt(l) \/ Len(l) # 2 THEN Raise("ValueError")
            ELSE IF IntOf(l[1]) # isym THEN Raise("AssertionError")
            ELSE IF IntOf(l[2]) = 0
                 THEN ReadSlots(Advance(ls), nsym_group, dim, isym + 1, characters, hasuvw)
            ELSE IF IntOf(l[2]) # 1 THEN Raise("RuntimeError")
            ELSE LET m == ReadMatrix(Advance(ls), dim, 0, <<>>, FALSE)
                 IN IF m.err # "none" THEN Raise(m.err)
                    ELSE ReadSlots(m.rest, nsym_group, dim, isym + 1,
                                   IF 2 * isym <= nsym_group
                                   THEN (isym :> CharFunction(m.abcde)) @@ characters
                                   ELSE characters,
                                   hasuvw \/ m.hasuvw)

\* Irrep(f=f, nsym_group=nsym_group): machine encoding, read from the stream ls
Irrep_init(ls, nsym_group) ==
    LET s == ReadLine(ls)
    IN IF ~AllFloat(Slice(s, 0, 3)) THEN Raise("ValueError")
       ELSE IF Len(s) < 8 THEN Raise("IndexError")
       ELSE IF ~IsIntLit(s[6]) \/ ~IsIntLit(s[7]) THEN Raise("ValueError")
       ELSE IF Len(s) < 9 THEN Raise("IndexError")
       ELSE IF ~IsIntLit(s[9]) THEN Raise("ValueError")
       ELSE LET dim == IntOf(s[6])
                nsym == HalfInt(IntOf(s[7]))
                r == ReadSlots(Advance(ls), nsym_group, dim, 1, <<>>, FALSE)
            IN IF r.err # "none" THEN Raise(r.err)
               ELSE IF ~r.hasuvw /\ \E i \in DOMAIN r.characters :
                                       CharFunction_call(r.characters[i]).err # "none"
                    THEN Raise("IndexError")
               ELSE IF Cardinality(DOMAIN r.characters) # nsym THEN Raise("AssertionError")
               ELSE [err |-> "none",
                     rest |-> r.rest,
                     val |-> [k |-> Floats(Slice(s, 0, 3)),
                              kpname |-> s[8],
                              name |-> s[5],
                              dim |-> dim,
                              nsym |-> nsym,
                              reality |-> IntOf(s[9]),
                              hasuvw |-> IF r.hasuvw THEN "True" ELSE "False",
                              characters |->
                                  IF r.hasuvw THEN r.characters
                                  ELSE [i \in DOMAIN r.characters |->
                                           CharFunction_call(r.characters[i]).val]]]

\* Irrep(line=line, k_point=k_point): user encoding; the attribute hasuvw is
\* not assigned on this path
Irrep_init_user(line, k_point) ==
    LET nsym == PyLen(k_point.isym)
        reality == Len(Slice(line, 2, Len(line))) = nsym
        amp == Slice(line, 2, 2 + nsym)
        ph == Slice(line, 2 + nsym, 2 + 2 * nsym)
    IN IF Len(line) < 2 THEN Raise("IndexError")
       ELSE IF ~IsIntLit(line[2]) THEN Raise("ValueError")
       ELSE IF ~AllFloat(amp) THEN Raise("ValueError")
       ELSE IF ~reality /\ ~AllFloat(ph) THEN Raise("ValueError")
       ELSE IF ~reality /\ ~Broadcastable(Len(amp), Len(ph)) THEN Raise("ValueError")
       ELSE LET ch == IF reality
                      THEN [i \in 1..Len(amp) |-> Cplx(FloatOf(amp[i]), 0)]
                      ELSE PolarArray(Floats(amp), Floats(ph))
            IN IF nsym > 0 /\ k_point.isym.kind = "set" THEN Raise("TypeError")
               ELSE IF Len(ch) < nsym THEN Raise("IndexError")
               ELSE Ok([k |-> k_point.k,
                        kpname |-> k_point.name,
                        name |-> line[1],
                        dim |-> IntOf(line[2]),
                        nsym |-> nsym,
                        reality |-> reality,
                        hasuvw |-> "unset",
                        characters |-> DictOf(k_point.isym.s, ch, nsym)])

\* Irrep.str
Irrep_str(self) ==
    LET keys == SortedSet(DOMAIN self.characters)
        ch == [i \in 1..Len(keys) |-> self.characters[keys[i]]]
    IN IF Len(ch) = 0 THEN Raise("ValueError")
       ELSE IF self.hasuvw = "True" THEN Raise("TypeError")
       ELSE Ok(<<self.name, IntStr(self.dim)>>
               \o (IF \E i \in 1..Len(ch) : ch[i].im # 0
                   THEN [i \in 1..Len(ch) |-> str_(CAbs(ch[i]))]
                          \o [i \in 1..Len(ch) |-> str_(CAngle(ch[i]))]
                   ELSE [i \in 1..Len(ch) |-> str_(ch[i].re)]))

-----------------------------------------------------------------------------
(* class SymopTable                                                        *)

SymopObj(R, t, S) == [R |-> R, t |-> t, S |-> S]

\* SymopTable(line): machine encoding, S as interleaved (magnitude, phase)
\* pairs; reshape(3,3) and reshape(2,2) need exactly 9 and 4 entries
SymopTable_init(line) ==
    LET numbers == line
        n == Len(numbers)
        mags == [i \in 1..((n - 12 + 1) \div 2) |-> numbers[12 + 2 * i - 1]]
        phs == [i \in 1..((n - 12) \div 2) |-> numbers[12 + 2 * i]]
    IN IF n < 9 \/ ~AllInt(Slice(numbers, 0, 9)) THEN Raise("ValueError")
       ELSE IF ~AllFloat(Slice(numbers, 9, 12)) THEN Raise("ValueError")
       ELSE IF n <= 12 THEN Raise("ValueError")
       ELSE IF ~AllFloat(mags) \/ ~AllFloat(phs) THEN Raise("ValueError")
       ELSE IF ~Broadcastable(Len(mags), Len(phs)) THEN Raise("ValueError")
       ELSE IF BroadcastLen(Len(mags), Len(phs)) # 4 THEN Raise("ValueError")
       ELSE Ok(SymopObj(Ints(Slice(numbers, 0, 9)),
                        Floats(Slice(numbers, 9, 12)),
                        PolarArray(Floats(mags), Floats(phs))))

\* SymopTable(line, from_user=True): user encoding, S as a block of four
\* magnitudes followed by a block of four phases, identity when absent
SymopTable_init_from_user(line) ==
    LET numbers == line
        n == Len(numbers)
        mags == Slice(numbers, 12, 16)
        phs == Slice(numbers, 16, 20)
    IN IF n < 9 \/ ~AllInt(Slice(numbers, 0, 9)) THEN Raise("ValueError")
       ELSE IF ~AllFloat(Slice(numbers, 9, 12)) THEN Raise("ValueError")
       ELSE IF n <= 12
            THEN Ok(SymopObj(Ints(Slice(numbers, 0, 9)),
                             Floats(Slice(numbers, 9, 12)),
                             <<Cplx(1000, 0), Cplx(0, 0), Cplx(0, 0), Cplx(1000, 0)>>))
       ELSE IF ~AllFloat(mags) \/ ~AllFloat(phs) THEN Raise("ValueError")
       ELSE IF ~Broadcastable(Len(mags), Len(phs)) THEN Raise("ValueError")
       ELSE IF BroadcastLen(Len(mags), Len(phs)) # 4 THEN Raise("ValueError")
       ELSE Ok(SymopObj(Ints(Slice(numbers, 0, 9)),
                        Floats(Slice(numbers, 9, 12)),
                        PolarArray(Floats(mags), Floats(phs))))

\* SymopTable.str(spinor)
SymopTable_str(self, spinor) ==
    [i \in 1..Len(self.R) |-> IntStr(self.R[i])]
      \o [i \in 1..Len(self.t) |-> str_(self.t[i])]
      \o (IF spinor
          THEN [i \in 1..Len(self.S) |-> str_(CAbs(self.S[i]))]
                 \o [i \in 1..Len(self.S) |-> str_(CAngle(self.S[i]))]
          ELSE <<>>)

-----------------------------------------------------------------------------
(* class IrrepTable: helpers of the loaders and save4user                  *)

\* str.lower() on the tokens that occur as header keys
Lower(tok) ==
    CASE tok = "SG" -> "sg"
      [] tok = "Name" -> "name"
      [] tok = "NSYM" -> "nsym"
      [] OTHER -> tok

\* s.name.startswith("-")
StartsWithMinus(tok) == tok \in {"-A1", "-B1", "-1", "-0.5", "-1.0"}

\* str(b) of a bool
BoolStr(b) == IF b THEN "True" ELSE "False"

Reverse(s) == [i \in 1..Len(s) |-> s[Len(s) + 1 - i]]

\* the stream after n readlines
RECURSIVE Drop(_, _)
Drop(ls, n) == IF n <= 0 THEN ls ELSE Drop(Advance(ls), n - 1)

\* the lines n readlines return, empty lines past the end of the file
Take(ls, n) == [i \in 1..(IF n < 0 THEN 0 ELSE n) |-> IF i <= Len(ls) THEN ls[i] ELSE <<>>]

\* the table object right after self.number (and, on the user path,
\* self.spinor) is assigned; attrs names the attributes assigned so far
NewTable(SG, spinor) ==
    [number |-> SG, spinor |-> spinor, name |-> <<>>, nsym |-> 0,
     symmetries |-> <<>>, irreps |-> <<>>, attrs |-> {"number", "spinor"}]

\* the reserved coordinates of save4user, in units of 1/1000
ReservedCoords == {123, 313, 1123, 877, 427, 246, 687}

HasReserved(k) == ReservedCoords \cap Range(k) # {}

\* first loop of save4user: the k-points to write, keyed by name, in
\* insertion order
RECURSIVE CollectKPoints(_, _, _)
CollectKPoints(irreps, i, kpoints) ==
    IF i > Len(irreps) THEN Ok(kpoints)
    ELSE LET irr == irreps[i]
             kpt == KPointObj(irr.kpname, irr.k, PySet(DOMAIN irr.characters))
             same == {j \in 1..Len(kpoints) : kpoints[j].name = kpt.name}
         IN IF irr.hasuvw = "unset" THEN Raise("AttributeError")
            ELSE IF irr.hasuvw = "True" THEN CollectKPoints(irreps, i + 1, kpoints)
            ELSE IF HasReserved(kpt.k) THEN CollectKPoints(irreps, i + 1, kpoints)
            ELSE IF same = {} THEN CollectKPoints(irreps, i + 1, Append(kpoints, kpt))
            ELSE LET e == KPoint_eq(kpoints[CHOOSE j \in same : TRUE], kpt)
                 IN IF e.err # "none" THEN Raise(e.err)
                    ELSE IF ~e.val THEN Raise("AssertionError")
                    ELSE CollectKPoints(irreps, i + 1, kpoints)

\* inner loop of save4user: the records of every irrep whose kpname matches
RECURSIVE WriteIrreps(_, _, _, _, _)
WriteIrreps(irreps, i, name, text, done) ==
    IF i > Len(irreps) THEN [err |-> "none", fout |-> text, wrote |-> done]
    ELSE IF irreps[i].kpname # name THEN WriteIrreps(irreps, i + 1, name, text, done)
    ELSE LET r == Irrep_str(irreps[i])
         IN IF r.err # "none" THEN [err |-> r.err, fout |-> text, wrote |-> done]
            ELSE WriteIrreps(irreps, i + 1, name, Append(text, r.val), Append(done, i))

\* second loop of save4user: a header and the matching irreps per k-point
RECURSIVE WriteKPoints(_, _, _, _, _)
WriteKPoints(irreps, kpoints, j, text, done) ==
    IF j > Len(kpoints) THEN [err |-> "none", fout |-> text, wrote |-> done]
    ELSE LET r == WriteIrreps(irreps, 1, kpoints[j].name,
                              text \o << <<>>, <<"kpoint">> \o KPoint_str(kpoints[j]) >>,
                              done)
         IN IF r.err # "none" THEN r
            ELSE WriteKPoints(irreps, kpoints, j + 1, r.fout, r.wrote)

\* IrrepTable.save4user: the lines written, the indices of the irreps whose
\* records were written, and the exception raised, if any
save4user(self) ==
    IF ~({"number", "name", "nsym", "spinor", "symmetries", "irreps"} \subseteq self.attrs)
    THEN [err |-> "AttributeError", fout |-> <<>>, wrote |-> <<>>]
    ELSE LET head == << <<"SG", "=", IntStr(self.number)>>,
                        <<"name", "=">> \o self.name,
                        <<"nsym", "=", IntStr(self.nsym)>>,
                        <<"spinor", "=", BoolStr(self.spinor)>>,
                        <<"symmetries", "=">> >>
                       \o [i \in 1..Len(self.symmetries) |->
                              SymopTable_str(self.symmetries[i], self.spinor)]
                       \o (IF Len(self.symmetries) = 0 THEN << <<>>, <<>> >> ELSE << <<>> >>)
             kps == CollectKPoints(self.irreps, 1, <<>>)
         IN IF kps.err # "none" THEN [err |-> kps.err, fout |-> head, wrote |-> <<>>]
            ELSE WriteKPoints(self.irreps, kps.val, 1, head, <<>>)

-----------------------------------------------------------------------------
(* Inputs                                                                  *)

\* largest little-group index used in directly constructed KPoints
MaxIdx == 2

\* longest index list passed directly to KPoint
MaxList == 2

\* largest number of fields after the dimension in a user-encoded irrep line
MaxFields == 5

\* nsym_group ranges over 2, 4, .., 2*MaxHalf in machine-encoded input
MaxHalf == 2

RECURSIVE Concat(_)
Concat(ss) == IF Len(ss) = 0 THEN <<>> ELSE Head(ss) \o Concat(Tail(ss))

SeqsUpTo(S, n) == UNION {[1..m -> S] : m \in 0..n}

KNames == {"GM", "X"}

KVecs == {<<0, 0, 0>>, <<500, 0, 0>>, <<123, 0, 0>>}

IsymValues ==
    {PySet(S) : S \in SUBSET (1..MaxIdx)} \cup {PyList(l) : l \in SeqsUpTo(1..MaxIdx, MaxList)}

KPObjs == {KPointObj(n, k, i) : n \in KNames, k \in {<<0, 0, 0>>, <<500, 0, 0>>}, i \in IsymValues}

\* k-point lines as found in a user table, well-formed and not
KPLines ==
    {<<"kpoint", "GM", ":", "0.0", "0.0", "0.0", ":", "1", "2">>,
     <<"kpoint", "GM", ":", "0.0", "0.0", "0.0", ":", "2", "1">>,
     <<"kpoint", "GM", ":", "0.0", "0.0", "0.0", ":", "1", "1">>,
     <<"kpoint", "X", ":", "0.5", "0.0", "0.0", ":", "1">>,
     <<"kpoint", "X", ":", "0.5", "0.0", ":", "1">>,
     <<"GM", ":", "0.0", "0.0", "0.0", ":", "1", "2">>,
     <<"kpoint", "GM", ":", "0.0", "0.0", "0.0">>,
     <<"kpoint", "GM", ":", "0.0", "x", "0.0", ":", "1">>,
     <<"kpoint">>,
     <<>>}

FieldToks == {"1.0", "0.5", "x"}

IrrepLines ==
    {<<"A1", d>> \o f : d \in {"1", "x"}, f \in SeqsUpTo(FieldToks, MaxFields)} \cup {<<>>, <<"A1">>}

\* the lines of one machine-encoded irrep record
MatrixLines(d) ==
    Concat([p \in 1..(d.dim * d.dim) |->
        IF ((p - 1) \div d.dim) = ((p - 1) % d.dim)
        THEN << <<IF d.uvw THEN "2" ELSE "1">>,
                <<d.amp, d.ph, IF d.uvw THEN "1.0" ELSE "0.0", "0.0", "0.0">> >>
        ELSE << <<"1">>, <<"2.0", "0.0", "0.0", "0.0", "0.0">> >>])

MachineRecord(d) ==
    << d.k \o <<"1", d.name, IntStr(d.dim), d.decl, d.kpname, "1">> >>
      \o Concat([i \in 1..Len(d.present) |->
            << <<IntStr(i), IntStr(d.present[i])>> >>
              \o (IF d.present[i] = 1 THEN MatrixLines(d) ELSE <<>>)])

RecordDescs(nsym_group) ==
    [k : {<<"0.0", "0.0", "0.0">>},
     name : {"A1"},
     kpname : {"GM"},
     dim : {1, 2},
     decl : {IntStr(nsym_group), "2"},
     present : [1..nsym_group -> {0, 1}],
     uvw : BOOLEAN,
     amp : {"1.0"},
     ph : {"0.5"}]

-----------------------------------------------------------------------------
(* Object-level operations: KPoint and Irrep applied to drawn inputs       *)

\* the table-level variables while only single objects are exercised
TableIdle ==
    /\ src = [SG |-> 1, spinor |-> FALSE, fromUser |-> TRUE, file |-> <<>>]
    /\ lines = <<>>
    /\ pc = "idle"
    /\ phase = "idle"
    /\ tbl = NewTable(1, FALSE)
    /\ kp = Raise("unbound")
    /\ err = "none"
    /\ fout = <<>>
    /\ wrote = <<>>
    /\ orig = NewTable(1, FALSE)
    /\ parsed = <<>>

InitUnit ==
    /\ kpA \in KPObjs
    /\ out = [op |-> "init"]
    /\ TableIdle

\* an operation is applied to a KPoint that was just constructed or parsed
Fresh == out.op \in {"init", "new", "parse"}

\* KPoint(name, k, isym)
NewKPoint ==
    /\ out.op = "init"
    /\ kpA' \in KPObjs
    /\ out' = [op |-> "new"]
    /\ UNCHANGED tableVars

\* KPoint(line=l)
ParseKPoint ==
    /\ out.op = "init"
    /\ \E l \in KPLines :
        LET r == KPoint_init(l)
        IN /\ out' = [op |-> "parse", line |-> l, res |-> r]
           /\ kpA' = IF r.err = "none" THEN r.val ELSE kpA
    /\ UNCHANGED tableVars

\* kpA == other, other == kpA, kpA == kpA
Compare ==
    /\ Fresh
    /\ \E other \in KPObjs \cup {KPoint_init(l).val : l \in {x \in KPLines : KPoint_init(x).err = "none"}} :
        /\ out' = [op |-> "eq", other |-> other,
                   ab |-> KPoint_eq(kpA, other),
                   ba |-> KPoint_eq(other, kpA),
                   aa |-> KPoint_eq(kpA, kpA)]
        /\ UNCHANGED <<kpA, tableVars>>

\* KPoint(line=kpA.str())
StrThenParse ==
    /\ Fresh
    /\ out' = [op |-> "str", line |-> KPoint_str(kpA), res |-> KPoint_init(KPoint_str(kpA))]
    /\ UNCHANGED <<kpA, tableVars>>

\* Irrep(line=l, k_point=kpA)
NewIrrepUser ==
    /\ Fresh
    /\ \E l \in IrrepLines :
        /\ out' = [op |-> "irrep_user", line |-> l, res |-> Irrep_init_user(l, kpA)]
        /\ UNCHANGED <<kpA, tableVars>>

\* Irrep(f=f, nsym_group=g) on a stream holding one record, possibly cut short
NewIrrepMachine ==
    /\ out.op = "init"
    /\ \E h \in 1..MaxHalf : \E d \in RecordDescs(2 * h) :
        \E cut \in 0..Len(MachineRecord(d)) :
            /\ out' = [op |-> "irrep_machine", nsym_group |-> 2 * h,
                       res |-> Irrep_init(SubSeq(MachineRecord(d), 1, cut), 2 * h)]
            /\ UNCHANGED <<kpA, tableVars>>

NextUnit ==
    \/ NewKPoint
    \/ ParseKPoint
    \/ Compare
    \/ StrThenParse
    \/ NewIrrepUser
    \/ NewIrrepMachine

SpecUnit == InitUnit /\ [][NextUnit]_vars

-----------------------------------------------------------------------------
(* Claims about single objects, checked under SpecUnit                     *)

NoRepeats(l) == \A i, j \in 1..Len(l) : l[i] = l[j] => i = j

\* C3: every Irrep object that construction returns, by the machine encoding
\* or by the user encoding, has as many characters as its nsym says, also
\* when the k-point's index list repeats an index.
C3_SlotCount ==
    (out.op \in {"irrep_user", "irrep_machine"} /\ out.res.err = "none")
        => Cardinality(DOMAIN out.res.val.characters) = out.res.val.nsym

GMLine == <<"GM", ":", "0.0", "0.0", "0.0", ":", "1", "2">>

\* C4: the line kp.str() produces is accepted by KPoint(line=...) and parses
\* to a KPoint equal to kp; the line "GM : 0.0 0.0 0.0 : 1 2" parses to the
\* k-point GM at (0,0,0) with indices {1,2}.
C4_StrParseRoundTrip ==
    /\ out.op = "str" =>
        /\ out.res.err = "none"
        /\ KPoint_eq(out.res.val, kpA) = Ok(TRUE)
    /\ (out.op = "parse" /\ out.line = GMLine) =>
        /\ out.res.err = "none"
        /\ out.res.val.name = "GM"
        /\ out.res.val.k = <<0, 0, 0>>
        /\ PyElems(out.res.val.isym) = {1, 2}

\* C5: KPoint equality is reflexive and symmetric, and two KPoints with the
\* same name, the same k and index lists holding the same indices in
\* different orders compare equal; KPoints differing in name, k or index set
\* compare unequal.
C5_EqOrderInsensitive ==
    out.op = "eq" =>
        /\ out.aa = Ok(TRUE)
        /\ out.ab = out.ba
        /\ (/\ kpA.name = out.other.name
            /\ kpA.k = out.other.k
            /\ kpA.isym.kind = out.other.isym.kind
            /\ NoRepeats(kpA.isym.s)
            /\ NoRepeats(out.other.isym.s)
            /\ PyElems(kpA.isym) = PyElems(out.other.isym))
               => out.ab = Ok(TRUE)
        /\ (\/ kpA.name # out.other.name
            \/ (Len(kpA.k) = Len(out.other.k) /\ kpA.k # out.other.k)
            \/ PyElems(kpA.isym) # PyElems(out.other.isym))
               => out.ab # Ok(TRUE)

\* C10: with nsym = len(k_point.isym), a user-encoded line yields an Irrep
\* only when it has exactly nsym fields after the dimension (reality true,
\* characters are the field values) or exactly 2*nsym (reality false,
\* character i is amplitude_i * exp(i*pi*phase_i)); character i goes to
\* index isym[i].  Stated for non-empty index lists without repeats.
C10_FieldCount ==
    (/\ out.op = "irrep_user"
     /\ kpA.isym.kind = "list"
     /\ PyLen(kpA.isym) >= 1
     /\ NoRepeats(kpA.isym.s)
     /\ out.res.err = "none")
        => LET n == PyLen(kpA.isym)
               f == Slice(out.line, 2, Len(out.line))
               irr == out.res.val
           IN \/ /\ Len(f) = n
                 /\ irr.reality
                 /\ \A i \in 1..n :
                       irr.characters[kpA.isym.s[i]] = Cplx(FloatOf(f[i]), 0)
              \/ /\ Len(f) = 2 * n
                 /\ ~irr.reality
                 /\ \A i \in 1..n :
                       irr.characters[kpA.isym.s[i]] = Polar(FloatOf(f[i]), FloatOf(f[n + i]))

-----------------------------------------------------------------------------
(* class IrrepTable: the loaders, one operator per step                    *)

\* IrrepTable.__init__, legacy path: header line, symmetry lines, "#", NK
LegacyHeaderStep(self, ls) ==
    LET h == ReadLine(ls)
    IN IF Len(h) # 2 THEN Raise("ValueError")
       ELSE IF ~IsIntLit(h[1]) THEN Raise("ValueError")
       ELSE LET n == IntOf(h[1])
                symlines == Take(Advance(ls), n)
                after == Drop(Advance(ls), n)
            IN IF \E i \in 1..Len(symlines) : SymopTable_init(symlines[i]).err # "none"
               THEN Raise("ValueError")
               ELSE IF ReadLine(after) # <<"#">> THEN Raise("AssertionError")
               ELSE IF Len(ReadLine(Advance(after))) # 1 \/ ~AllInt(ReadLine(Advance(after)))
                    THEN Raise("ValueError")
               ELSE [err |-> "none",
                     rest |-> Advance(Advance(after)),
                     val |-> [self EXCEPT
                                !.nsym = n,
                                !.name = <<h[2]>>,
                                !.symmetries = [i \in 1..Len(symlines) |->
                                                   SymopTable_init(symlines[i]).val],
                                !.irreps = <<>>,
                                !.attrs = @ \cup {"nsym", "name", "spinor", "symmetries", "NK", "irreps"}]]

\* a filter that keeps every parsed irrep (for comparison)
SpinorFilter_KeepAll(irreps, spinor) == irreps

\* the spinor filter of the legacy path
SpinorFilter(irreps, spinor) ==
    LET keep(irr) == IF spinor THEN StartsWithMinus(irr.name) ELSE ~StartsWithMinus(irr.name)
    IN SelectSeq(irreps, keep)

\* a finish that filters but keeps every symmetry line read (for comparison)
LegacyFinishStep_NoHalving(self) ==
    [self EXCEPT !.irreps = SpinorFilter(self.irreps, self.spinor)]

\* IrrepTable.__init__, legacy path, after the scan: filter, halve, truncate
LegacyFinishStep(self) ==
    [self EXCEPT
       !.irreps = SpinorFilter(self.irreps, self.spinor),
       !.nsym = HalfInt(self.nsym),
       !.symmetries = Slice(self.symmetries, 0, HalfInt(self.nsym))]

\* IrrepTable.__init__user: one iteration of the header loop on the popped
\* line raw; next is the position afterwards
UserHeaderStep(self, SG, raw) ==
    LET l == SplitOn(raw, "=")
        key == IF Len(l[1]) = 1 THEN Lower(l[1][1]) ELSE ""
        stay(t) == [err |-> "none", val |-> t, next |-> "header"]
    IN IF key = "SG"
       THEN IF Len(l) < 2 THEN Raise("IndexError")
            ELSE IF Len(l[2]) # 1 \/ ~AllInt(l[2]) THEN Raise("ValueError")
            ELSE IF IntOf(l[2][1]) # SG THEN Raise("AssertionError")
            ELSE stay(self)
       ELSE IF key = "name"
       THEN IF Len(l) < 2 THEN Raise("IndexError")
            ELSE stay([self EXCEPT !.name = l[2], !.attrs = @ \cup {"name"}])
       ELSE IF key = "nsym"
       THEN IF Len(l) < 2 THEN Raise("IndexError")
            ELSE IF Len(l[2]) # 1 \/ ~AllInt(l[2]) THEN Raise("ValueError")
            ELSE stay([self EXCEPT !.nsym = IntOf(l[2][1]), !.attrs = @ \cup {"nsym"}])
       ELSE IF key = "spinor"
       THEN IF Len(l) < 2 THEN Raise("IndexError")
            ELSE IF Len(l[2]) # 1 THEN Raise("RuntimeError")
            ELSE IF str2bool(l[2][1]).err # "none" THEN Raise(str2bool(l[2][1]).err)
            ELSE IF str2bool(l[2][1]).val # self.spinor THEN Raise("AssertionError")
            ELSE stay(self)
       ELSE IF key = "symmetries"
       THEN IF "nsym" \notin self.attrs THEN Raise("AttributeError")
            ELSE [err |-> "none",
                  val |-> [self EXCEPT !.symmetries = <<>>, !.attrs = @ \cup {"symmetries"}],
                  next |-> "symmetries"]
       ELSE stay(self)

\* a symmetry loop that stores the identity for a line that does not parse
\* (for comparison)
UserSymmetryStep_CountAll(self, raw) ==
    LET r == SymopTable_init_from_user(raw)
    IN [self EXCEPT !.symmetries =
          Append(@, IF r.err = "none" THEN r.val
                    ELSE SymopObj(<<1, 0, 0, 0, 1, 0, 0, 0, 1>>, <<0, 0, 0>>,
                                  <<Cplx(1000, 0), Cplx(0, 0), Cplx(0, 0), Cplx(1000, 0)>>))]

\* IrrepTable.__init__user: one iteration of the symmetry loop on the popped
\* line raw: a line that parses is appended, any other is dropped
UserSymmetryStep(self, raw) ==
    LET r == SymopTable_init_from_user(raw)
    IN IF r.err = "none"
       THEN [self EXCEPT !.symmetries = Append(@, r.val)]
       ELSE self

\* a record scan that forgets the k-point context after each irrep (for
\* comparison)
UserScanStep_DropContext(self, k, raw) ==
    LET asKp == KPoint_init(raw)
    IN IF asKp.err = "none" THEN [tbl |-> self, kp |-> asKp]
       ELSE IF k.err # "none" THEN [tbl |-> self, kp |-> k]
       ELSE LET irr == Irrep_init_user(raw, k.val)
            IN IF irr.err = "none"
               THEN [tbl |-> [self EXCEPT !.irreps = Append(@, irr.val)],
                     kp |-> Raise("UnboundLocalError")]
               ELSE [tbl |-> self, kp |-> k]

\* IrrepTable.__init__user: one iteration of the record scan on the popped
\* line raw, with k the local variable kp (unbound before the first k-point)
UserScanStep(self, k, raw) ==
    LET asKp == KPoint_init(raw)
    IN IF asKp.err = "none" THEN [tbl |-> self, kp |-> asKp]
       ELSE IF k.err # "none" THEN [tbl |-> self, kp |-> k]
       ELSE LET irr == Irrep_init_user(raw, k.val)
            IN IF irr.err = "none"
               THEN [tbl |-> [self EXCEPT !.irreps = Append(@, irr.val)], kp |-> k]
               ELSE [tbl |-> self, kp |-> k]

-----------------------------------------------------------------------------
(* Input files                                                             *)

\* most irrep records in a legacy file
MaxRecs == 2

\* most record lines after the symmetry section of a user file
MaxLines == 3

\* most lines between the symmetries= marker and the records of a user file
MaxSymLines == 3

SignTok(b) == IF b = 1 THEN "-1" ELSE "1"

\* the i-th symmetry line of a legacy file: R = diag(+-1), t, S interleaved
MachineSymLine(i) ==
    <<SignTok(i % 2), "0", "0", "0", SignTok((i \div 2) % 2), "0", "0", "0",
      SignTok((i \div 4) % 2)>>
      \o <<"0.0", "0.0", IF i % 2 = 1 THEN "0.5" ELSE "0.0">>
      \o <<"1.0", IF i % 2 = 1 THEN "0.5" ELSE "0.0", "0.0", "0.0",
           "0.0", "0.0", "1.0", IF i % 2 = 1 THEN "-0.5" ELSE "1.0">>

\* the i-th symmetry line of a user file, with or without the spinor blocks
UserSymLine(i, spin) ==
    <<SignTok(i % 2), "0", "0", "0", SignTok((i \div 2) % 2), "0", "0", "0",
      SignTok((i \div 4) % 2)>>
      \o <<"0.0", "0.0", IF i % 2 = 1 THEN "0.5" ELSE "0.0">>
      \o (IF spin
          THEN <<"1.0", "0.0", "0.0", "1.0", IF i % 2 = 1 THEN "0.5" ELSE "0.0",
                 "0.0", "0.0", "-0.5">>
          ELSE <<>>)

BaseVariant ==
    [name |-> "A1", kpname |-> "GM", k |-> <<"0.0", "0.0", "0.0">>, uvw |-> FALSE,
     dim |-> 1, all |-> TRUE, ph |-> "0.0", good |-> TRUE]

\* the kinds of irrep record a legacy file is built from
LegacyVariants ==
    {BaseVariant,
     [BaseVariant EXCEPT !.name = "-A1", !.ph = "0.5"],
     [BaseVariant EXCEPT !.kpname = "X", !.k = <<"0.123", "0.0", "0.0">>],
     [BaseVariant EXCEPT !.kpname = "X"],
     [BaseVariant EXCEPT !.uvw = TRUE],
     [BaseVariant EXCEPT !.dim = 2],
     [BaseVariant EXCEPT !.all = FALSE],
     [BaseVariant EXCEPT !.good = FALSE],
     [BaseVariant EXCEPT !.k = <<"0.5", "0.0", "0.0">>]}

LegacyDesc(nsym_group, v) ==
    LET count == IF v.all THEN nsym_group \div 2 ELSE 1
    IN [k |-> v.k, name |-> v.name, kpname |-> v.kpname, dim |-> v.dim,
        decl |-> IF v.good THEN IntStr(2 * count) ELSE IntStr(2 * count + 2),
        present |-> [i \in 1..nsym_group |-> IF v.all \/ i = 1 THEN 1 ELSE 0],
        uvw |-> v.uvw, amp |-> "1.0", ph |-> v.ph]

\* a legacy file: header, symmetry lines, "#", NK, records each followed by
\* one separator line
LegacyFile(nsym_group, vs) ==
    << <<IntStr(nsym_group), "Fm-3m">> >>
      \o [i \in 1..nsym_group |-> MachineSymLine(i)]
      \o << <<"#">>, <<IntStr(Len(vs))>> >>
      \o Concat([i \in 1..Len(vs) |->
            MachineRecord(LegacyDesc(nsym_group, vs[i])) \o << <<>> >>])

HeaderKeys == <<"SG", "name", "nsym", "spinor">>

\* the header of a user file: the fields named by mask, in the order of
\* save4user, then the marker
UserHeader(mask, nsymTok, marker) ==
    LET field(key) ==
            CASE key = "SG" -> <<"SG", "=", "1">>
              [] key = "name" -> <<"name", "=", "Fm-3m">>
              [] key = "nsym" -> <<"nsym", "=", nsymTok>>
              [] key = "spinor" -> <<"spinor", "=", "True">>
        IsIn(key) == key \in mask
    IN [i \in 1..Len(SelectSeq(HeaderKeys, IsIn)) |-> field(SelectSeq(HeaderKeys, IsIn)[i])]
         \o (IF marker THEN << <<"symmetries", "=">> >> ELSE <<>>)

\* lines found in the record section of a user file
BodyLines ==
    {<<"kpoint", "GM", ":", "0.0", "0.0", "0.0", ":", "1", "2">>,
     <<"kpoint", "X", ":", "0.5", "0.0", "0.0", ":", "1">>,
     <<"kpoint", "GM", ":", "0.0", "0.0", "0.0", ":", "1", "1">>,
     <<"A1", "1", "1.0", "1.0">>,
     <<"-A1", "1", "1.0", "1.0", "0.0", "0.5">>,
     <<"B1", "1", "1.0">>,
     <<"kpoint", "1", "1.0">>,
     <<"x">>,
     <<>>}

SimpleBody ==
    << <<>>,
       <<"kpoint", "GM", ":", "0.0", "0.0", "0.0", ":", "1", "2">>,
       <<"A1", "1", "1.0", "1.0">> >>

\* lines found between the marker and the records of a user file
SymSectionLines == {UserSymLine(1, FALSE), UserSymLine(2, TRUE), <<>>, <<"x">>}

\* user files with any header and a fixed body
HeaderFiles ==
    {UserHeader(mask, "1", marker) \o <<UserSymLine(1, FALSE)>> \o SimpleBody :
        mask \in SUBSET Range(HeaderKeys), marker \in BOOLEAN}

\* user files with a full header and any symmetry section
SectionFiles ==
    {UserHeader(Range(HeaderKeys), n, TRUE) \o sec \o SimpleBody :
        n \in {"0", "1", "2"}, sec \in SeqsUpTo(SymSectionLines, MaxSymLines)}

\* user files with a full or a minimal header and any record section
RecordFiles ==
    {UserHeader(mask, "1", TRUE) \o <<UserSymLine(1, FALSE)>> \o body :
        mask \in {{"SG", "name", "nsym"}, {"nsym"}}, body \in SeqsUpTo(BodyLines, MaxLines)}

UserFiles == HeaderFiles \cup SectionFiles \cup RecordFiles

-----------------------------------------------------------------------------
(* Loading, saving and loading again                                       *)

UnitIdle ==
    /\ kpA = KPointObj("GM", <<0, 0, 0>>, PySet({}))
    /\ out = [op |-> "idle"]

\* IrrepTable(SGnumber, spinor, fromUser=False) about to read its file, or
\* IrrepTable(SGnumber, spinor, fromUser=True) with the reversed list of lines
Init ==
    /\ UnitIdle
    /\ phase = "load"
    /\ kp = Raise("unbound")
    /\ err = "none"
    /\ fout = <<>>
    /\ wrote = <<>>
    /\ orig = NewTable(1, FALSE)
    /\ parsed = <<>>
    /\ \/ \E h \in 1..MaxHalf, vs \in SeqsUpTo(LegacyVariants, MaxRecs), sp \in BOOLEAN :
            \E cut \in 0..Len(LegacyFile(2 * h, vs)) :
                /\ src = [SG |-> 1, spinor |-> sp, fromUser |-> FALSE,
                          file |-> SubSeq(LegacyFile(2 * h, vs), 1, cut)]
                /\ lines = SubSeq(LegacyFile(2 * h, vs), 1, cut)
                /\ pc = "start"
                /\ tbl = [NewTable(1, sp) EXCEPT !.attrs = {"number"}]
       \/ \E f \in UserFiles, sg \in {1, 2}, sp \in BOOLEAN :
                /\ src = [SG |-> sg, spinor |-> sp, fromUser |-> TRUE, file |-> f]
                /\ lines = Reverse(f)
                /\ pc = "header"
                /\ tbl = NewTable(sg, sp)

\* the running operation is left by exception e
Fail(e) ==
    /\ pc' = "failed"
    /\ err' = e

\* lines 465-470
LegacyHeader ==
    /\ pc = "start"
    /\ LET r == LegacyHeaderStep(tbl, lines)
       IN IF r.err # "none"
          THEN Fail(r.err) /\ UNCHANGED <<tbl, lines>>
          ELSE /\ tbl' = r.val
               /\ lines' = r.rest
               /\ pc' = "irreps"
               /\ UNCHANGED err
    /\ UNCHANGED <<unitVars, src, phase, kp, fout, wrote, orig, parsed>>

\* lines 472-482: one iteration of the scan; IndexError ends it normally
LegacyIrrep ==
    /\ pc = "irreps"
    /\ LET r == Irrep_init(lines, tbl.nsym)
       IN IF r.err = "none"
          THEN /\ tbl' = [tbl EXCEPT !.irreps = Append(@, r.val)]
               /\ lines' = Advance(r.rest)
               /\ UNCHANGED <<pc, err>>
          ELSE IF r.err \in {"EOFError", "IndexError"}
          THEN /\ pc' = "filter"
               /\ UNCHANGED <<tbl, lines, err>>
          ELSE Fail(r.err) /\ UNCHANGED <<tbl, lines>>
    /\ UNCHANGED <<unitVars, src, phase, kp, fout, wrote, orig, parsed>>

\* lines 484-490
LegacyFinish ==
    /\ pc = "filter"
    /\ parsed' = tbl.irreps
    /\ tbl' = LegacyFinishStep(tbl)
    /\ pc' = "loaded"
    /\ UNCHANGED <<unitVars, src, lines, phase, kp, err, fout, wrote, orig>>

\* lines 581-592 and 603: one iteration of the header loop
UserHeaderLine ==
    /\ pc = "header"
    /\ Len(lines) > 0
    /\ lines' = SubSeq(lines, 1, Len(lines) - 1)
    /\ LET r == UserHeaderStep(tbl, src.SG, lines[Len(lines)])
       IN IF r.err # "none"
          THEN Fail(r.err) /\ UNCHANGED tbl
          ELSE /\ tbl' = r.val
               /\ pc' = r.next
               /\ UNCHANGED err
    /\ UNCHANGED <<unitVars, src, phase, kp, fout, wrote, orig, parsed>>

\* lines 581 and 605: the file ends before a symmetries= marker, and
\* self.symmetries was never assigned
UserHeaderEnd ==
    /\ pc = "header"
    /\ Len(lines) = 0
    /\ Fail("AttributeError")
    /\ UNCHANGED <<unitVars, src, lines, phase, tbl, kp, fout, wrote, orig, parsed>>

\* lines 595-602: one iteration of the symmetry loop
UserSymmetryLine ==
    /\ pc = "symmetries"
    /\ Len(tbl.symmetries) < tbl.nsym
    /\ IF Len(lines) = 0
       THEN Fail("IndexError") /\ UNCHANGED <<tbl, lines>>
       ELSE /\ tbl' = UserSymmetryStep(tbl, lines[Len(lines)])
            /\ lines' = SubSeq(lines, 1, Len(lines) - 1)
            /\ UNCHANGED <<pc, err>>
    /\ UNCHANGED <<unitVars, src, phase, kp, fout, wrote, orig, parsed>>

\* lines 595, 603-607: the symmetry loop ends, the record scan starts
UserSymmetriesDone ==
    /\ pc = "symmetries"
    /\ Len(tbl.symmetries) >= tbl.nsym
    /\ tbl' = [tbl EXCEPT !.irreps = <<>>, !.attrs = @ \cup {"irreps"}]
    /\ pc' = "scan"
    /\ UNCHANGED <<unitVars, src, lines, phase, kp, err, fout, wrote, orig, parsed>>

\* lines 608-619: one iteration of the record scan
UserScanLine ==
    /\ pc = "scan"
    /\ Len(lines) > 0
    /\ lines' = SubSeq(lines, 1, Len(lines) - 1)
    /\ LET r == UserScanStep(tbl, kp, lines[Len(lines)])
       IN /\ tbl' = r.tbl
          /\ kp' = r.kp
    /\ UNCHANGED <<unitVars, src, pc, phase, err, fout, wrote, orig, parsed>>

\* line 608: the stack of lines is empty, the constructor returns
UserScanEnd ==
    /\ pc = "scan"
    /\ Len(lines) = 0
    /\ pc' = "loaded"
    /\ UNCHANGED <<unitVars, src, lines, phase, tbl, kp, err, fout, wrote, orig, parsed>>

\* table.save4user(name) on the table just loaded
Save ==
    /\ pc = "loaded"
    /\ phase = "load"
    /\ LET r == save4user(tbl)
       IN /\ fout' = r.fout
          /\ wrote' = r.wrote
          /\ err' = r.err
          /\ pc' = IF r.err = "none" THEN "saved" ELSE "failed"
    /\ phase' = "save"
    /\ UNCHANGED <<unitVars, src, lines, tbl, kp, orig, parsed>>

\* IrrepTable(SGnumber, spinor, fromUser=True, name=name) on the file written
Reload ==
    /\ pc = "saved"
    /\ phase = "save"
    /\ orig' = tbl
    /\ tbl' = NewTable(src.SG, src.spinor)
    /\ lines' = Reverse(fout)
    /\ kp' = Raise("unbound")
    /\ pc' = "header"
    /\ phase' = "reload"
    /\ UNCHANGED <<unitVars, src, err, fout, wrote, parsed>>

Next ==
    \/ LegacyHeader
    \/ LegacyIrrep
    \/ LegacyFinish
    \/ UserHeaderLine
    \/ UserHeaderEnd
    \/ UserSymmetryLine
    \/ UserSymmetriesDone
    \/ UserScanLine
    \/ UserScanEnd
    \/ Save
    \/ Reload

Spec == Init /\ [][Next]_vars

\* IrrepTable(SG, spinor, name=file) alone, on the files that vary the header
\* and the symmetry section
InitUserLoad ==
    /\ Init
    /\ src.fromUser
    /\ src.file \in HeaderFiles \cup SectionFiles

NextUserLoad ==
    \/ UserHeaderLine
    \/ UserHeaderEnd
    \/ UserSymmetryLine
    \/ UserSymmetriesDone
    \/ UserScanLine
    \/ UserScanEnd

\* the constructor is sequential code: when it can take its next step it
\* takes it
SpecUserLoad == InitUserLoad /\ [][NextUserLoad]_vars /\ WF_vars(NextUserLoad)

-----------------------------------------------------------------------------
(* Claims about tables, checked under Spec                                 *)

\* the header of a user file: the lines before the symmetries= marker
Marker == <<"symmetries", "=">>

HeaderPart(f) ==
    IF \E i \in 1..Len(f) : f[i] = Marker
    THEN SubSeq(f, 1, (CHOOSE i \in 1..Len(f) :
                          f[i] = Marker /\ \A j \in 1..(i - 1) : f[j] # Marker) - 1)
    ELSE f

SGMismatch ==
    \E i \in 1..Len(HeaderPart(src.file)) :
        LET l == HeaderPart(src.file)[i]
        IN Len(l) = 3 /\ l[1] = "SG" /\ l[2] = "=" /\ IsIntLit(l[3]) /\ IntOf(l[3]) # src.SG

SpinorMismatch ==
    \E i \in 1..Len(HeaderPart(src.file)) :
        LET l == HeaderPart(src.file)[i]
        IN Len(l) = 3 /\ l[1] = "spinor" /\ l[2] = "=" /\ l[3] \in {"True", "False"}
           /\ (l[3] = "True") # src.spinor

\* C2: on the user path, load aborts with an error whenever the header holds
\* an SG=<n> line with n different from the requested number or a spinor=<b>
\* line with b different from the requested flag: the loader never gets past
\* the header.
C2_HeaderMismatchAborts ==
    (src.fromUser /\ phase = "load" /\ (SGMismatch \/ SpinorMismatch))
        => pc \in {"header", "failed"}

\* C1: save4user(T) completes without raising for a table T that load
\* returned, and loading the written file on the user path gives a table
\* with the same nsym, the same symmetry operations and, for every
\* non-parameterized irrep of T without reserved coordinate, an irrep with
\* the same kpname, label, dimension and characters.  Stated for tables T
\* loaded on the user path from a file whose header names the group.
C1_RoundTrip ==
    /\ (src.fromUser /\ phase = "save" /\ "name" \in tbl.attrs) => pc = "saved"
    /\ (src.fromUser /\ phase = "reload") => pc # "failed"
    /\ (src.fromUser /\ phase = "reload" /\ pc = "loaded") =>
          /\ tbl.nsym = orig.nsym
          /\ tbl.symmetries = orig.symmetries
          /\ \A i \in 1..Len(orig.irreps) :
                ~HasReserved(orig.irreps[i].k) =>
                    \E j \in 1..Len(tbl.irreps) :
                        /\ tbl.irreps[j].kpname = orig.irreps[i].kpname
                        /\ tbl.irreps[j].name = orig.irreps[i].name
                        /\ tbl.irreps[j].dim = orig.irreps[i].dim
                        /\ tbl.irreps[j].characters = orig.irreps[i].characters

\* C6: a legacy table whose header declares nsym_group = 2k is loaded with
\* nsym = k and with exactly the first k symmetry lines of the file, in order.
C6_LegacyHalving ==
    (~src.fromUser /\ phase = "load" /\ pc = "loaded") =>
        LET k == IntOf(src.file[1][1]) \div 2
        IN /\ tbl.nsym = k
           /\ Len(tbl.symmetries) = k
           /\ \A i \in 1..k : tbl.symmetries[i] = SymopTable_init(src.file[1 + i]).val

C6_Witness ==
    /\ ~src.fromUser
    /\ phase = "load"
    /\ pc = "loaded"
    /\ IntOf(src.file[1][1]) = 4
    /\ Len(tbl.symmetries) = 2
    /\ Len(tbl.irreps) >= 1

\* indices of the parsed irreps whose label carries the spinor marker, or not
Marked(b) == {i \in 1..Len(parsed) : StartsWithMinus(parsed[i].name) = b}

\* C7, legacy path: the loaded irreps are exactly the parsed irreps whose
\* label starts with "-" when spinor is true, exactly those whose label does
\* not when spinor is false, in file order; so the two selections are
\* disjoint and cover the parsed irreps.
C7_LegacySpinorFilter ==
    (~src.fromUser /\ phase = "load" /\ pc = "loaded") =>
        LET idx == SortedSet(Marked(src.spinor))
        IN /\ Len(tbl.irreps) = Len(idx)
           /\ \A j \in 1..Len(idx) : tbl.irreps[j] = parsed[idx[j]]

C7_Witness ==
    /\ ~src.fromUser
    /\ phase = "load"
    /\ pc = "loaded"
    /\ Marked(TRUE) # {}
    /\ Marked(FALSE) # {}
    /\ Len(tbl.irreps) >= 1

\* C7 as claimed, for both load paths: every irrep of a loaded table carries
\* the spinor marker exactly when spinor is true.
C7_SpinorFilterBothPaths ==
    (phase = "load" /\ pc = "loaded") =>
        \A i \in 1..Len(tbl.irreps) : StartsWithMinus(tbl.irreps[i].name) = src.spinor

\* the k-point headers save4user wrote
HeadersWritten == SelectSeq(fout, LAMBDA l : Len(l) >= 2 /\ l[1] = "kpoint")

\* C8: every irrep record save4user writes belongs to an irrep with hasuvw
\* false and without reserved coordinate, and each k-point name is written
\* as a header at most once.
C8_SaveFilters ==
    phase = "save" =>
        /\ \A n \in 1..Len(wrote) :
              /\ tbl.irreps[wrote[n]].hasuvw = "False"
              /\ ~HasReserved(tbl.irreps[wrote[n]].k)
        /\ \A a, b \in 1..Len(HeadersWritten) :
              HeadersWritten[a][2] = HeadersWritten[b][2] => a = b

\* C9: once the header and the symmetry section are read, a stream that ends
\* or whose last record is blank, malformed or truncated ends the scan
\* normally: load raises nothing (an AssertionError of a complete record with
\* an inconsistent count set aside).
C9_LenientTail ==
    (phase = "load" /\ "irreps" \in tbl.attrs /\ pc = "failed") => err = "AssertionError"

\* the lines of a user file after its first symmetries= marker
AfterMarker(f) == SubSeq(f, Len(HeaderPart(f)) + 2, Len(f))

Parseable(l) == SymopTable_init_from_user(l).err = "none"

\* the operations of the parseable lines of ls, in order
OpsOf(ls) ==
    LET good == SelectSeq(ls, Parseable)
    IN [i \in 1..Len(good) |-> SymopTable_init_from_user(good[i]).val]

\* the lines the user load has popped after the marker
Consumed == SubSeq(AfterMarker(src.file), 1, Len(AfterMarker(src.file)) - Len(lines))

\* C11, safety: in the symmetry section every popped line is consumed and
\* only the lines that parse add an entry, in file order, never more than
\* nsym; when the section is left, and whenever load returns, symmetries are
\* exactly the first nsym parseable lines after the marker.
C11_Section ==
    /\ (src.fromUser /\ phase = "load" /\ pc = "symmetries") =>
          /\ tbl.symmetries = OpsOf(Consumed)
          /\ Len(tbl.symmetries) <= tbl.nsym
    /\ (src.fromUser /\ phase = "load" /\ pc \in {"scan", "loaded"}) =>
          /\ Len(tbl.symmetries) = tbl.nsym
          /\ Len(OpsOf(AfterMarker(src.file))) >= tbl.nsym
          /\ tbl.symmetries = SubSeq(OpsOf(AfterMarker(src.file)), 1, tbl.nsym)

\* C11: the safety part above holds always, and a load that has reached the
\* symmetry section leaves it, to the record scan or with an error: it does
\* not loop forever, also when fewer than nsym lines parse.
C11_SymmetrySection ==
    /\ []C11_Section
    /\ ((src.fromUser /\ phase = "load" /\ pc = "symmetries")
            ~> (pc \in {"loaded", "failed"}))

\* a returned table of two operations whose section began with a line that
\* does not parse
C11_Witness ==
    /\ src.fromUser
    /\ phase = "load"
    /\ pc = "loaded"
    /\ tbl.nsym = 2
    /\ Len(AfterMarker(src.file)) >= 3
    /\ ~Parseable(AfterMarker(src.file)[1])

\* the position in the file of the line that completes the symmetry section
SectionEnd(f) ==
    LET after == AfterMarker(f)
        n == tbl.nsym
        ends == {i \in 1..Len(after) : Len(OpsOf(SubSeq(after, 1, i))) >= n}
    IN Len(HeaderPart(f)) + 1
         + (IF n <= 0 \/ ends = {} THEN 0
            ELSE CHOOSE i \in ends : \A j \in ends : i <= j)

\* the lines the record scan of the user load has popped so far
Scanned == SubSeq(src.file, SectionEnd(src.file) + 1, Len(src.file) - Len(lines))

IsHeader(l) == KPoint_init(l).err = "none"

StartsKpoint(l) == Len(l) > 0 /\ l[1] = "kpoint"

\* the position in Scanned of the latest k-point header before line i, or 0
Ctx(i) ==
    LET hs == {j \in 1..(i - 1) : IsHeader(Scanned[j])}
    IN IF hs = {} THEN 0 ELSE CHOOSE j \in hs : \A h \in hs : h <= j

\* line i of Scanned, read as an irrep of the k-point header before it
AsIrrep(i) == Irrep_init_user(Scanned[i], KPoint_init(Scanned[Ctx(i)]).val)

\* the scanned lines that give an irrep
Produces(i) == ~IsHeader(Scanned[i]) /\ Ctx(i) > 0 /\ AsIrrep(i).err = "none"

\* C12, as it holds: the irreps of the table are, in file order, the scanned
\* lines that do not parse as a k-point header, come after a parsed header
\* and parse as an irrep; each has the kpname, k and indices of the latest
\* parsed header before its line; a line before any parsed header and a line
\* that parses as a header give no irrep.
C12_ScanContext ==
    (src.fromUser /\ phase = "load" /\ pc \in {"scan", "loaded"}) =>
        LET idx == SortedSet({i \in 1..Len(Scanned) : Produces(i)})
        IN /\ Len(tbl.irreps) = Len(idx)
           /\ \A n \in 1..Len(idx) :
                 LET h == KPoint_init(Scanned[Ctx(idx[n])]).val
                 IN /\ tbl.irreps[n] = AsIrrep(idx[n]).val
                    /\ tbl.irreps[n].kpname = h.name
                    /\ tbl.irreps[n].k = h.k
                    /\ tbl.irreps[n].nsym = PyLen(h.isym)
                    /\ DOMAIN tbl.irreps[n].characters = PyElems(h.isym)
                    /\ tbl.irreps[n].name = Scanned[idx[n]][1]

\* a returned table whose irrep follows two different k-point headers
C12_Witness ==
    /\ src.fromUser
    /\ phase = "load"
    /\ pc = "loaded"
    /\ Len(tbl.irreps) = 1
    /\ \E i, j \in 1..Len(Scanned) :
          /\ i < j
          /\ j < Len(Scanned)
          /\ IsHeader(Scanned[i])
          /\ IsHeader(Scanned[j])
          /\ KPoint_init(Scanned[i]).val.name # KPoint_init(Scanned[j]).val.name
          /\ Produces(j + 1)

\* C12 as claimed: the above, and no line starting with kpoint gives an irrep.
C12_KpointLineNoIrrep ==
    /\ C12_ScanContext
    /\ (src.fromUser /\ phase = "load" /\ pc \in {"scan", "loaded"}) =>
          /\ \A i \in 1..Len(Scanned) : StartsKpoint(Scanned[i]) => ~Produces(i)
          /\ \A n \in 1..Len(tbl.irreps) : tbl.irreps[n].name # "kpoint"

====
